---- MODULE Spec2Model ----
(***************************************************************************)
(* Model of fetch_all_env_processing_times_exceptretry.py: a linear script *)
(* that validates its configuration, computes a 24 hour window, pages      *)
(* through the MessageProcessingLogs API of DEV, UAT and PROD, ranks the   *)
(* five flows with the largest non-RETRY duration per environment and      *)
(* POSTs one consolidated report.                                          *)
(*                                                                         *)
(* Python strings are modelled as tuples of one-character strings, so that *)
(* the regular expression of parse_log_date, startswith, rstrip and lstrip *)
(* are computed character by character.                                    *)
(***************************************************************************)
EXTENDS Integers, Sequences, FiniteSets, TLC

VARIABLES
    pc,               \* position of the script
    osenv,            \* the process environment read by os.getenv
    start_str,        \* line 48
    end_str,          \* line 49
    final_payload,    \* lines 52-58, 148-151
    envIdx,           \* position of the for loop of line 70 in EnvOrder
    filter_str,       \* line 73
    next_url,         \* lines 81, 95, 97
    all_results,      \* lines 80, 91
    duration_records, \* lines 108-122
    max_durations,    \* lines 127-134, an insertion-ordered dict
    top_5,            \* line 139
    responses,        \* the upstream responses to the current environment's GETs
    nGet,             \* number of requests.get calls made so far
    nLinks,           \* number of next links the upstream has given so far
    nPost,            \* number of requests.post calls made so far
    served,           \* number of records the upstream has served so far
    error,            \* the exception that ended the run, if any
    sent,             \* the outcome printed after the POST, lines 164-168
    end_time,         \* line 46
    start_time,       \* line 47
    probe,            \* an upstream record the filter is evaluated on
    selected          \* whether the upstream selects probe under filter_str

vars == <<pc, osenv, start_str, end_str, final_payload, envIdx, filter_str,
          next_url, all_results, duration_records, max_durations, top_5,
          responses, nGet, nLinks, nPost, served, error, sent, end_time, start_time,
          probe, selected>>

-----------------------------------------------------------------------------
(* Bounds of the model *)

\* at most this many of the twelve variables are unset or empty at start
MaxMissing == 1
\* the upstream serves at most this many records during one run
MaxRecords == 2
\* the upstream answers at most this many GETs of one run with a next link
MaxNextLinks == 1
\* length of the free-form record sequences given to the ranking
MaxShortLen == 2
\* number of distinct flows in the wide record sequences given to the ranking
NWide == 6

-----------------------------------------------------------------------------
(* Python values *)

\* None
None == [t |-> "None", s |-> <<>>, n |-> 0]
\* an exception raised instead of a value
Raised == [t |-> "raise", s |-> <<>>, n |-> 0]
\* a str, as its characters
PyStr(chars) == [t |-> "str", s |-> chars, n |-> 0]
\* an int
PyInt(i) == [t |-> "int", s |-> <<>>, n |-> i]

\* truth value of a Python object, as used by all(), `if next_link` and `while next_url`
Truthy(v) ==
    CASE v.t = "None" -> FALSE
      [] v.t = "str" -> v.s # <<>>
      [] v.t = "int" -> v.n # 0

DigitChars == <<"0", "1", "2", "3", "4", "5", "6", "7", "8", "9">>

\* the value of each decimal digit
DigitValues == [c \in {DigitChars[i] : i \in 1..10} |-> (CHOOSE i \in 1..10 : DigitChars[i] = c) - 1]

IsDigit(c) == c \in DOMAIN DigitValues

DigitValue(c) == DigitValues[c]

\* str(n) for n >= 0
RECURSIVE Digits(_)
Digits(n) == IF n < 10 THEN <<DigitChars[n + 1]>>
             ELSE Digits(n \div 10) \o <<DigitChars[(n % 10) + 1]>>

\* int(s[i..k]) for decimal digits, continuing from the value acc of the digits before i
RECURSIVE IntOfDigits(_, _, _, _)
IntOfDigits(s, i, k, acc) ==
    IF i > k THEN acc ELSE IntOfDigits(s, i + 1, k, 10 * acc + DigitValue(s[i]))

\* s.startswith(p)
StartsWith(s, p) == Len(s) >= Len(p) /\ SubSeq(s, 1, Len(p)) = p

\* s.rstrip(c)
RECURSIVE RStrip(_, _)
RStrip(s, c) == IF s # <<>> /\ s[Len(s)] = c THEN RStrip(SubSeq(s, 1, Len(s) - 1), c) ELSE s

\* s.lstrip(c)
RECURSIVE LStrip(_, _)
LStrip(s, c) == IF s # <<>> /\ s[1] = c THEN LStrip(Tail(s), c) ELSE s

-----------------------------------------------------------------------------
(* parse_log_date, lines 63-65 *)

DatePrefix == <<"/", "D", "a", "t", "e", "(">>

\* the last index of the maximal run of digits of s that starts at j (j - 1 if none)
RECURSIVE DigitRunEnd(_, _)
DigitRunEnd(s, j) == IF j <= Len(s) /\ IsDigit(s[j]) THEN DigitRunEnd(s, j + 1) ELSE j - 1

\* The pattern /Date\((\d+)\)/ matches s at position i: the index of the last
\* digit of group(1), or 0 when it does not match.  \d+ is greedy, and giving
\* digits back cannot help, since a digit would have to match the bracket.
MatchEnd(s, i) ==
    LET j == i + Len(DatePrefix)
    IN  IF i + Len(DatePrefix) - 1 <= Len(s) /\ SubSeq(s, i, j - 1) = DatePrefix
        THEN LET k == DigitRunEnd(s, j)
             IN  IF k >= j /\ k + 2 <= Len(s) /\ s[k + 1] = ")" /\ s[k + 2] = "/"
                 THEN k
                 ELSE 0
        ELSE 0

\* re.search scans from the left: the position of the first match from i on, or 0
RECURSIVE Search(_, _)
Search(s, i) ==
    IF i > Len(s) THEN 0
    ELSE IF MatchEnd(s, i) > 0 THEN i
    ELSE Search(s, i + 1)

\* int(match.group(1)) if match else None, for the match at position i
IntOfMatch(s, i) ==
    IF i = 0 THEN None
    ELSE PyInt(IntOfDigits(s, i + Len(DatePrefix), MatchEnd(s, i), 0))

\* a non-str argument makes re.search raise TypeError
parse_log_date(date_str) ==
    IF date_str.t # "str" THEN Raised ELSE IntOfMatch(date_str.s, Search(date_str.s, 1))

-----------------------------------------------------------------------------
(* Time window, lines 46-49 *)

\* A datetime is [days, seconds, microseconds] since the epoch, the way Python
\* normalises a timedelta.  A formatted "%Y-%m-%dT%H:%M:%S" string is the record
\* of its fields; the calendar date stands as its day number.
SecondsPerDay == 86400

\* timedelta(days=2) for timedelta(days=1)
MinusTwoDays(dt) == [dt EXCEPT !.days = dt.days - 2]

\* end_time - timedelta(days=1)
MinusOneDay(dt) == [dt EXCEPT !.days = dt.days - 1]

\* dt.strftime("%Y-%m-%dT%H:%M:%S"): the microseconds are dropped
strftime(dt) ==
    [date |-> dt.days,
     H |-> dt.seconds \div 3600,
     M |-> (dt.seconds % 3600) \div 60,
     S |-> dt.seconds % 60]

\* seconds since the epoch denoted by a formatted timestamp
SecondsOf(ts) == ts.date * SecondsPerDay + ts.H * 3600 + ts.M * 60 + ts.S

\* the clock readings datetime.utcnow() may return
NowChoices ==
    {[days |-> 2, seconds |-> 0, microseconds |-> 0],
     [days |-> 3, seconds |-> 86399, microseconds |-> 999000]}

-----------------------------------------------------------------------------
(* The filter expression, line 73, and its OData meaning *)

\* the filter with the two bounds exchanged: LogEnd ge start and LogStart le end
BuildFilterOverlap(s, e) ==
    [left |-> [field |-> "LogEnd", cmp |-> "ge", lit |-> s],
     right |-> [field |-> "LogStart", cmp |-> "le", lit |-> e]]

\* f"LogStart ge datetime'{start_str}' and LogEnd le datetime'{end_str}'"
BuildFilter(s, e) ==
    [left |-> [field |-> "LogStart", cmp |-> "ge", lit |-> s],
     right |-> [field |-> "LogEnd", cmp |-> "le", lit |-> e]]

\* Edm.DateTime values are compared in epoch milliseconds
LiteralMs(ts) == SecondsOf(ts) * 1000

EvalCmp(c, rec) ==
    LET v == IF c.field = "LogStart" THEN rec.LogStart ELSE rec.LogEnd
    IN  CASE c.cmp = "ge" -> v >= LiteralMs(c.lit)
          [] c.cmp = "le" -> v <= LiteralMs(c.lit)

\* the upstream selects rec under the expression `left and right`
EvalFilter(f, rec) == EvalCmp(f.left, rec) /\ EvalCmp(f.right, rec)

-----------------------------------------------------------------------------
(* Configuration, lines 12-41 *)

\* the keys of `environments` in insertion order
EnvOrder == <<"DEV", "UAT", "PROD">>

\* the keys of each environment's dict in insertion order
EnvKeys == <<"SAP_USERNAME", "SAP_PASSWORD", "SAP_BASE_URL">>

\* the keys of the unified iFlow settings, lines 31-33
IflowKeys == <<"URL", "USERNAME", "PASSWORD">>

\* the names passed to os.getenv, <<"DEV", "SAP_USERNAME">> for DEV_SAP_USERNAME
OsVars ==
    {<<EnvOrder[i], EnvKeys[k]>> : i \in 1..3, k \in 1..3}
        \cup {<<"IFLOW", IflowKeys[k]>> : k \in 1..3}

\* os.getenv(name): None when the variable is absent
getenv(name) == osenv[name]

\* lines 12-28
environments ==
    [e \in {EnvOrder[i] : i \in 1..3} |->
        [k \in {EnvKeys[i] : i \in 1..3} |-> getenv(<<e, k>>)]]

\* the list without the extend of lines 37-38
required_envs_iflow_only ==
    <<getenv(<<"IFLOW", "URL">>), getenv(<<"IFLOW", "USERNAME">>),
      getenv(<<"IFLOW", "PASSWORD">>)>>

\* lines 36-38: the three iFlow values, then each environment's values
required_envs ==
    <<getenv(<<"IFLOW", "URL">>), getenv(<<"IFLOW", "USERNAME">>),
      getenv(<<"IFLOW", "PASSWORD">>)>>
    \o [j \in 1..9 |-> environments[EnvOrder[((j - 1) \div 3) + 1]][EnvKeys[((j - 1) % 3) + 1]]]

\* all(required_envs), line 40
AllRequired == \A j \in 1..Len(required_envs) : Truthy(required_envs[j])

HttpChars == <<"h", "t", "t", "p">>

\* a complete configuration; the UAT base URL ends with a slash
GoodValue(name) ==
    CASE name[2] = "SAP_BASE_URL" /\ name[1] = "UAT" -> PyStr(HttpChars \o <<":", "/", "/", "u", "/">>)
      [] name[2] = "SAP_BASE_URL" /\ name[1] # "UAT" -> PyStr(HttpChars \o <<":", "/", "/", "s">>)
      [] name[2] = "URL" -> PyStr(HttpChars \o <<":", "/", "/", "i">>)
      [] OTHER -> PyStr(<<"x">>)

\* the environments the process may be started in: every variable set, except
\* that up to MaxMissing of them are absent or empty
OsEnvChoices ==
    {f \in [OsVars -> {"good", "absent", "empty"}] :
        Cardinality({v \in OsVars : f[v] # "good"}) <= MaxMissing}

OsEnvOf(f) ==
    [v \in OsVars |->
        CASE f[v] = "good" -> GoodValue(v)
          [] f[v] = "absent" -> None
          [] f[v] = "empty" -> PyStr(<<>>)]

-----------------------------------------------------------------------------
(* Duration calculation, lines 108-122 *)

\* The state of the loop of line 109: the records appended so far, and whether
\* an exception has left the loop.
LoopState(records, raised) == [records |-> records, raised |-> raised]

\* the iteration without the check of line 112: None - int raises
DurationStepUnchecked(acc, entry) ==
    LET start_ms == parse_log_date(entry.LogStart)
        end_ms == parse_log_date(entry.LogEnd)
    IN  IF start_ms.t # "int" \/ end_ms.t # "int" THEN LoopState(acc, TRUE)
        ELSE LoopState(Append(acc,
                [IntegrationFlowName |-> entry.IntegrationFlowName,
                 MessageGuid |-> entry.MessageGuid,
                 Status |-> entry.Status,
                 DurationMs |-> end_ms.n - start_ms.n,
                 LogStart |-> start_ms.n,
                 LogEnd |-> end_ms.n]), FALSE)

\* one iteration of the loop of line 109
DurationStep(acc, entry) ==
    LET start_ms == parse_log_date(entry.LogStart)
        end_ms == parse_log_date(entry.LogEnd)
    IN  IF start_ms = Raised \/ end_ms = Raised THEN LoopState(acc, TRUE)
        ELSE IF start_ms = None \/ end_ms = None THEN LoopState(acc, FALSE)
        ELSE LoopState(Append(acc,
                [IntegrationFlowName |-> entry.IntegrationFlowName,
                 MessageGuid |-> entry.MessageGuid,
                 Status |-> entry.Status,
                 DurationMs |-> end_ms.n - start_ms.n,
                 LogStart |-> start_ms.n,
                 LogEnd |-> end_ms.n]), FALSE)

\* the loop of lines 109-122 over results[i..], starting from acc
RECURSIVE DurationLoop(_, _, _)
DurationLoop(acc, results, i) ==
    IF i > Len(results) THEN LoopState(acc, FALSE)
    ELSE LET step == DurationStep(acc, results[i])
         IN  IF step.raised THEN step ELSE DurationLoop(step.records, results, i + 1)

-----------------------------------------------------------------------------
(* Max duration per flow, lines 127-134 *)

\* A dict is the sequence of its values in insertion order; the key of a value
\* is its IntegrationFlowName.
HasKey(md, name) == \E i \in 1..Len(md) : md[i].IntegrationFlowName = name

Lookup(md, name) == md[CHOOSE i \in 1..Len(md) : md[i].IntegrationFlowName = name]

\* md[name] = record: a new key is appended, an existing key keeps its position
SetItem(md, name, record) ==
    IF HasKey(md, name)
    THEN [i \in 1..Len(md) |-> IF md[i].IntegrationFlowName = name THEN record ELSE md[i]]
    ELSE Append(md, record)

\* the iteration with < for >: the shortest record of each flow is kept
MaxStepMin(md, record) ==
    IF record.Status = "RETRY" THEN md
    ELSE LET name == record.IntegrationFlowName
         IN  IF ~HasKey(md, name) \/ record.DurationMs < Lookup(md, name).DurationMs
             THEN SetItem(md, name, record)
             ELSE md

\* the iteration without the check of line 129
MaxStepWithRetry(md, record) ==
    LET name == record.IntegrationFlowName
    IN  IF ~HasKey(md, name) \/ record.DurationMs > Lookup(md, name).DurationMs
        THEN SetItem(md, name, record)
        ELSE md

\* the iteration with >= for >: the last of several longest records is kept
MaxStepLast(md, record) ==
    IF record.Status = "RETRY" THEN md
    ELSE LET name == record.IntegrationFlowName
         IN  IF ~HasKey(md, name) \/ record.DurationMs >= Lookup(md, name).DurationMs
             THEN SetItem(md, name, record)
             ELSE md

\* one iteration of the loop of line 128
MaxStep(md, record) ==
    IF record.Status = "RETRY" THEN md
    ELSE LET name == record.IntegrationFlowName
         IN  IF ~HasKey(md, name) \/ record.DurationMs > Lookup(md, name).DurationMs
             THEN SetItem(md, name, record)
             ELSE md

RECURSIVE MaxLoop(_, _, _)
MaxLoop(md, records, i) ==
    IF i > Len(records) THEN md ELSE MaxLoop(MaxStep(md, records[i]), records, i + 1)

-----------------------------------------------------------------------------
(* Top five, line 139 *)

TopN == 5

\* x is put behind every element whose DurationMs is at least its own
InsertDesc(sorted, x) ==
    LET before == {i \in 1..Len(sorted) : sorted[i].DurationMs >= x.DurationMs}
        k == IF before = {} THEN 0 ELSE CHOOSE i \in before : \A j \in before : j <= i
    IN  SubSeq(sorted, 1, k) \o <<x>> \o SubSeq(sorted, k + 1, Len(sorted))

\* sorted(values, key=DurationMs, reverse=True): stable, equal keys keep their order
RECURSIVE SortedDesc(_, _, _)
SortedDesc(acc, values, i) ==
    IF i > Len(values) THEN acc ELSE SortedDesc(InsertDesc(acc, values[i]), values, i + 1)

\* s[:n]
Prefix(s, n) == SubSeq(s, 1, IF Len(s) < n THEN Len(s) ELSE n)

\* the first five in their dict order, unsorted
Top5Unsorted(md) == Prefix(md, TopN)

Top5Of(md) == Prefix(SortedDesc(<<>>, md, 1), TopN)

-----------------------------------------------------------------------------
(* The upstream: what the GETs may return *)

\* "/Date(n)/"
Tok(n) == PyStr(DatePrefix \o Digits(n) \o <<")", "/">>)

\* an entry of d.results
Entry(flow, ls, le, status) ==
    [IntegrationFlowName |-> flow, LogStart |-> ls, LogEnd |-> le,
     MessageGuid |-> 0, Status |-> status]

\* the (LogStart, LogEnd) pairs of the upstream's records: durations 1, 2 and -2,
\* a token inside other text, a token without digits, a negative token
TimePairs ==
    {<<Tok(10), Tok(11)>>,
     <<PyStr(<<"x">> \o Tok(10).s \o <<"y">>), Tok(12)>>,
     <<Tok(12), Tok(10)>>,
     <<PyStr(DatePrefix \o <<")", "/">>), Tok(11)>>,
     <<Tok(10), PyStr(<<"/", "D", "a", "t", "e", "(", "-", "5", ")", "/">>)>>}

\* the records of the runs of the whole script: a plain one, a RETRY with the
\* largest duration, an unparseable LogStart, a null LogEnd
MainRecords ==
    {Entry("F1", Tok(10), Tok(11), "COMPLETED"),
     Entry("F2", Tok(10), Tok(15), "RETRY"),
     Entry("F1", PyStr(<<"x">>), Tok(19), "FAILED"),
     Entry("F2", Tok(10), None, "COMPLETED")}

FlowNames == <<"F1", "F2", "F3", "F4", "F5", "F6", "F7", "F8">>

\* the records of the free-form inputs of the ranking
RankRecords ==
    {Entry(FlowNames[f], tp[1], tp[2], st) :
        f \in 1..2, tp \in TimePairs, st \in {"COMPLETED", "RETRY"}}
    \cup {Entry("F1", None, Tok(11), "COMPLETED")}

\* one COMPLETED record for each of the first NWide flows, with durations d[1..NWide]
WideInput(d) ==
    [i \in 1..NWide |-> Entry(FlowNames[i], Tok(10), Tok(10 + d[i]), "COMPLETED")]

\* seven flows with durations 500, 100, 900, 300, 700, 200, 50
ExampleDurations == <<500, 100, 900, 300, 700, 200, 50>>
ExampleInput ==
    [i \in 1..7 |-> Entry(FlowNames[i], Tok(1000), Tok(1000 + ExampleDurations[i]), "COMPLETED")]

\* every sequence over S of length at most n
SeqsUpTo(S, n) == UNION {[1..k -> S] : k \in 0..n}

\* the upstream gives every record its own MessageGuid
WithGuids(results, base) ==
    [i \in 1..Len(results) |-> [results[i] EXCEPT !.MessageGuid = base + i]]

\* the record of flow F2 put before a wide sequence, if any: one that parses
RecordsBefore ==
    {<<>>} \cup {<<r>> : r \in {x \in RankRecords :
        /\ x.IntegrationFlowName = "F2"
        /\ parse_log_date(x.LogStart).t = "int"
        /\ parse_log_date(x.LogEnd).t = "int"}}

\* the record of flow F2 put behind a wide sequence: one that is ranked
RecordsBehind == {r \in RecordsBefore : r # <<>> /\ r[1].Status # "RETRY"}

\* the d.__next values of a response: absent, empty, a path, an absolute URL
NextLinkChoices ==
    {None, PyStr(<<>>), PyStr(<<"/", "/", "n">>), PyStr(HttpChars \o <<":", "/", "/", "n">>)}

\* the status codes other than 200 the upstream answers with
FailureStatuses == {204, 500}

PathChars == <<"/", "M", "e", "s", "s", "a", "g", "e", "P", "r", "o", "c", "e", "s", "s",
               "i", "n", "g", "L", "o", "g", "s">>

\* lines 75-78; the query string is carried by filter_str
InitialUrl(base) == PyStr(base.s \o PathChars)

\* all_results = results: each page replaces the ones before it
extendReplace(list, items) == items

\* all_results.extend(results), line 91
extend(list, items) == list \o items

\* line 95
FollowLink(base, next_link) ==
    IF StartsWith(next_link.s, HttpChars) THEN next_link
    ELSE PyStr(RStrip(base.s, "/") \o <<"/">> \o LStrip(next_link.s, "/"))

-----------------------------------------------------------------------------
(* The script *)

NoTime == [date |-> 0, H |-> 0, M |-> 0, S |-> 0]
NoDateTime == [days |-> 0, seconds |-> 0, microseconds |-> 0]
NoFilter == BuildFilter(NoTime, NoTime)
NoProbe == [LogStart |-> 0, LogEnd |-> 0]

env == EnvOrder[envIdx]
config == environments[env]

\* the state at the start of the process, for the process environment f
InitWith(f) ==
    /\ pc = "validate"
    /\ osenv = OsEnvOf(f)
    /\ start_str = NoTime
    /\ end_str = NoTime
    /\ end_time = NoDateTime
    /\ start_time = NoDateTime
    /\ final_payload = [timestamp_range |-> [start |-> NoTime, end |-> NoTime],
                        environments |-> <<>>]
    /\ envIdx = 1
    /\ filter_str = NoFilter
    /\ next_url = None
    /\ all_results = <<>>
    /\ duration_records = <<>>
    /\ max_durations = <<>>
    /\ top_5 = <<>>
    /\ responses = <<>>
    /\ nGet = 0
    /\ nLinks = 0
    /\ nPost = 0
    /\ served = 0
    /\ error = "none"
    /\ sent = "none"
    /\ selected = "unknown"

Init == \E f \in OsEnvChoices : InitWith(f) /\ probe = NoProbe

\* lines 36-41
Validate ==
    /\ pc = "validate"
    /\ IF AllRequired
       THEN pc' = "window" /\ error' = error
       ELSE pc' = "aborted" /\ error' = "RuntimeError"
    /\ UNCHANGED <<osenv, start_str, end_str, final_payload, envIdx, filter_str, next_url,
                   all_results, duration_records, max_durations, top_5, responses, nGet,
                   nLinks, nPost, served, sent, end_time, start_time, probe, selected>>

\* lines 46-58
Window ==
    /\ pc = "window"
    /\ \E now \in NowChoices :
        /\ end_time' = now
        /\ start_time' = MinusOneDay(now)
    /\ start_str' = strftime(start_time')
    /\ end_str' = strftime(end_time')
    /\ final_payload' = [timestamp_range |-> [start |-> start_str', end |-> end_str'],
                         environments |-> <<>>]
    /\ envIdx' = 1
    /\ pc' = "env"
    /\ UNCHANGED <<osenv, filter_str, next_url, all_results, duration_records,
                   max_durations, top_5, responses, nGet, nLinks, nPost, served, error, sent,
                   probe, selected>>

\* lines 70-81: the next environment of the loop
BeginEnv ==
    /\ pc = "env"
    /\ envIdx <= Len(EnvOrder)
    /\ filter_str' = BuildFilter(start_str, end_str)
    /\ next_url' = InitialUrl(config["SAP_BASE_URL"])
    /\ all_results' = <<>>
    /\ responses' = <<>>
    /\ pc' = "fetch"
    /\ UNCHANGED <<osenv, start_str, end_str, final_payload, envIdx, duration_records,
                   max_durations, top_5, nGet, nLinks, nPost, served, error, sent, end_time,
                   start_time, probe, selected>>

\* what a request leaves untouched
FetchFrame ==
    UNCHANGED <<osenv, start_str, end_str, final_payload, envIdx, filter_str,
                duration_records, max_durations, top_5, nPost, sent, end_time,
                start_time, probe, selected>>

\* line 86 raises: no response arrives
GetRaises ==
    /\ pc = "fetch"
    /\ Truthy(next_url)
    /\ nGet' = nGet + 1
    /\ pc' = "crashed"
    /\ error' = "RequestException"
    /\ UNCHANGED <<next_url, all_results, responses, served, nLinks>>
    /\ FetchFrame

\* lines 98-101: a status other than 200 ends the pagination
GetFails ==
    /\ pc = "fetch"
    /\ Truthy(next_url)
    /\ \E status \in FailureStatuses :
        responses' = Append(responses,
            [url |-> next_url, status |-> status, results |-> <<>>, next |-> None])
    /\ nGet' = nGet + 1
    /\ pc' = "process"
    /\ UNCHANGED <<next_url, all_results, served, nLinks, error>>
    /\ FetchFrame

\* line 89 raises: the body of a 200 response is not JSON
GetNotJson ==
    /\ pc = "fetch"
    /\ Truthy(next_url)
    /\ nGet' = nGet + 1
    /\ pc' = "crashed"
    /\ error' = "JSONDecodeError"
    /\ UNCHANGED <<next_url, all_results, responses, served, nLinks>>
    /\ FetchFrame

\* lines 88-97: a page.  A body without "d" or without "results" reads as an
\* empty page, one without "__next" as the link None.
GetPage ==
    /\ pc = "fetch"
    /\ Truthy(next_url)
    /\ \E page \in SeqsUpTo(MainRecords, MaxRecords - served), next_link \in NextLinkChoices :
        LET results == WithGuids(page, served)
        IN  /\ Truthy(next_link) => nLinks < MaxNextLinks
            /\ responses' = Append(responses,
                    [url |-> next_url, status |-> 200, results |-> results,
                     next |-> next_link])
            /\ all_results' = extend(all_results, results)
            /\ served' = served + Len(results)
            /\ nLinks' = IF Truthy(next_link) THEN nLinks + 1 ELSE nLinks
            /\ IF Truthy(next_link)
               THEN /\ next_url' = FollowLink(config["SAP_BASE_URL"], next_link)
                    /\ pc' = "fetch"
               ELSE /\ next_url' = None
                    /\ pc' = "process"
    /\ nGet' = nGet + 1
    /\ UNCHANGED error
    /\ FetchFrame

\* final_payload["environments"][name] = value
SetEnvironment(envs, name, value) ==
    IF \E i \in 1..Len(envs) : envs[i].name = name
    THEN [i \in 1..Len(envs) |-> IF envs[i].name = name THEN value ELSE envs[i]]
    ELSE Append(envs, value)

\* lines 108-151, given the outcome of the loop of lines 109-122
ProcessAfter(loop) ==
    /\ duration_records' = loop.records
    /\ IF loop.raised
       THEN /\ pc' = "crashed"
            /\ error' = "TypeError"
            /\ UNCHANGED <<max_durations, top_5, final_payload, envIdx>>
       ELSE /\ max_durations' = MaxLoop(<<>>, duration_records', 1)
            /\ top_5' = Top5Of(max_durations')
            /\ final_payload' =
                [final_payload EXCEPT !.environments =
                    SetEnvironment(@, env,
                        [name |-> env,
                         Top5IflowsByDuration |-> top_5',
                         TotalMessagesProcessed |-> Len(all_results)])]
            /\ envIdx' = envIdx + 1
            /\ pc' = "env"
            /\ UNCHANGED error

\* lines 103-151: the rest of the loop body, which neither reads nor writes
\* anything outside the process; the loop then goes on to the next environment
Process ==
    /\ pc = "process"
    /\ ProcessAfter(DurationLoop(<<>>, all_results, 1))
    /\ UNCHANGED <<osenv, start_str, end_str, filter_str, next_url, all_results,
                   responses, nGet, nLinks, nPost, served, sent, end_time, start_time,
                   probe, selected>>

PostFrame ==
    UNCHANGED <<osenv, start_str, end_str, final_payload, envIdx, filter_str, next_url,
                all_results, duration_records, max_durations, top_5, responses, nGet,
                nLinks, served, end_time, start_time, probe, selected>>

\* the status codes the downstream answers with
PostStatuses == {200, 201, 202, 204, 500}

\* lines 157-168: the POST is answered
Post ==
    /\ pc = "env"
    /\ envIdx > Len(EnvOrder)
    /\ nPost' = nPost + 1
    /\ \E status \in PostStatuses :
        sent' = IF status \in {200, 201, 202} THEN "success" ELSE "failed"
    /\ pc' = "done"
    /\ UNCHANGED error
    /\ PostFrame

\* line 157 raises: no response arrives
PostRaises ==
    /\ pc = "env"
    /\ envIdx > Len(EnvOrder)
    /\ nPost' = nPost + 1
    /\ pc' = "crashed"
    /\ error' = "RequestException"
    /\ UNCHANGED sent
    /\ PostFrame

Next ==
    \/ Validate
    \/ Window
    \/ BeginEnv
    \/ GetRaises
    \/ GetFails
    \/ GetNotJson
    \/ GetPage
    \/ Process
    \/ Post
    \/ PostRaises

Spec == Init /\ [][Next]_vars

-----------------------------------------------------------------------------
(* The ranking alone: the script after one page of a larger upstream *)

AllGood == [v \in OsVars |-> "good"]

RankClock == [days |-> 2, seconds |-> 0, microseconds |-> 0]

\* the state of a run before line 103 in which DEV answered with the one page input
AfterFetch(input) ==
    /\ pc = "process"
    /\ osenv = OsEnvOf(AllGood)
    /\ end_time = RankClock
    /\ start_time = MinusOneDay(RankClock)
    /\ start_str = strftime(start_time)
    /\ end_str = strftime(end_time)
    /\ final_payload = [timestamp_range |-> [start |-> start_str, end |-> end_str],
                        environments |-> <<>>]
    /\ envIdx = 1
    /\ filter_str = BuildFilter(start_str, end_str)
    /\ next_url = None
    /\ all_results = WithGuids(input, 0)
    /\ duration_records = <<>>
    /\ max_durations = <<>>
    /\ top_5 = <<>>
    /\ responses = <<[url |-> InitialUrl(GoodValue(<<"DEV", "SAP_BASE_URL">>)),
                     status |-> 200, results |-> all_results, next |-> None]>>
    /\ nGet = 1
    /\ nLinks = 0
    /\ nPost = 0
    /\ served = Len(input)
    /\ error = "none"
    /\ sent = "none"
    /\ probe = NoProbe
    /\ selected = "unknown"

\* the inputs of the ranking: short free-form sequences, wide sequences alone or
\* with one record of flow F2 before or behind them, and the example
RankInit ==
    \/ \E input \in SeqsUpTo(RankRecords, MaxShortLen) : AfterFetch(input)
    \/ \E d \in [1..NWide -> 1..3], r \in RecordsBefore : AfterFetch(r \o WideInput(d))
    \/ \E d \in [1..NWide -> 1..3], r \in RecordsBehind : AfterFetch(WideInput(d) \o r)
    \/ AfterFetch(ExampleInput)

RankNext == Process

RankSpec == RankInit /\ [][RankNext]_vars

-----------------------------------------------------------------------------
(* The filter alone: the upstream evaluates filter_str on one of its records *)

\* the instants around the ends of the windows, in epoch milliseconds
ProbeTimes ==
    {SecondsOf(strftime(t)) * 1000 + d :
        t \in NowChoices \cup {MinusOneDay(n) : n \in NowChoices},
        d \in {-1, 0, 1, 500}}

\* the upstream's records: LogStart <= LogEnd
ProbeChoices ==
    {[LogStart |-> a, LogEnd |-> b] : a \in ProbeTimes, b \in ProbeTimes} \ {r \in
        [LogStart : ProbeTimes, LogEnd : ProbeTimes] : r.LogStart > r.LogEnd}

FilterInit ==
    \E r \in ProbeChoices :
        /\ InitWith(AllGood)
        /\ probe = r

\* the upstream applies $filter to its record
UpstreamSelect ==
    /\ pc = "fetch"
    /\ selected = "unknown"
    /\ selected' = IF EvalFilter(filter_str, probe) THEN "yes" ELSE "no"
    /\ UNCHANGED <<pc, osenv, start_str, end_str, final_payload, envIdx, filter_str,
                   next_url, all_results, duration_records, max_durations, top_5,
                   responses, nGet, nLinks, nPost, served, error, sent, end_time,
                   start_time, probe>>

FilterNext ==
    \/ Validate
    \/ Window
    \/ BeginEnv
    \/ UpstreamSelect

FilterSpec == FilterInit /\ [][FilterNext]_vars

-----------------------------------------------------------------------------
(* What the claims speak about *)

\* an environment's entry has just been written, and all_results,
\* duration_records and responses still hold what was fetched for it
Ranked == pc = "env" /\ envIdx > 1

\* the entry of the environment just processed
Report == final_payload.environments[envIdx - 1]

Top == Report.Top5IflowsByDuration

\* the fetched records that parse are duration_records, in fetch order (C4 states
\* this); they are named by their position
Parsed == 1..Len(duration_records)

\* the fetched records that take part in the ranking
Eligible == {i \in Parsed : duration_records[i].Status # "RETRY"}

DurationOf(i) == duration_records[i].DurationMs

FlowOf(i) == duration_records[i].IntegrationFlowName

EligibleOf(flow) == {i \in Eligible : FlowOf(i) = flow}

RankedFlows == {FlowOf(i) : i \in Eligible}

\* the largest duration of the flow's eligible records
FlowMax(flow) ==
    CHOOSE d \in {DurationOf(i) : i \in EligibleOf(flow)} :
        \A i \in EligibleOf(flow) : DurationOf(i) <= d

\* the position of the flow's first eligible record
FirstOf(flow) == CHOOSE i \in EligibleOf(flow) : \A j \in EligibleOf(flow) : i <= j

TopFlows == {Top[k].IntegrationFlowName : k \in 1..Len(Top)}

\* the entry Top[k] is the fetched record at position i
IsRecord(k, i) == Top[k] = duration_records[i]

-----------------------------------------------------------------------------
(* C1 *)

\* C1: the Top5IflowsByDuration of an environment has at most five entries, no two
\* of the same flow, and each is a fetched non-RETRY parseable record whose
\* DurationMs is the largest among such records of its flow.
C1_MaxPerFlow ==
    Ranked =>
        /\ Len(Top) <= 5
        /\ \A k, l \in 1..Len(Top) :
            k # l => Top[k].IntegrationFlowName # Top[l].IntegrationFlowName
        /\ \A k \in 1..Len(Top) :
            \E i \in Eligible :
                /\ IsRecord(k, i)
                /\ DurationOf(i) = FlowMax(FlowOf(i))

\* a listed record has replaced a shorter record of its flow fetched before it,
\* and five flows are listed
C1_Witness ==
    /\ Ranked
    /\ Len(Top) = 5
    /\ \E k \in 1..Len(Top) : \E i, j \in Eligible :
        /\ i < j
        /\ FlowOf(i) = FlowOf(j)
        /\ IsRecord(k, j)
        /\ DurationOf(i) < DurationOf(j)

-----------------------------------------------------------------------------
(* C2 *)

Min(a, b) == IF a < b THEN a ELSE b

\* C2: the list is in descending order of DurationMs, holds min(5, number of
\* flows with an eligible record) entries, no flow left out has a larger maximum
\* than a listed one, and the example of seven flows gives 900, 700, 500, 300, 200.
C2_TopFiveDescending ==
    Ranked =>
        /\ \A k \in 1..(Len(Top) - 1) : Top[k].DurationMs >= Top[k + 1].DurationMs
        /\ Len(Top) = Min(5, Cardinality(RankedFlows))
        /\ \A flow \in RankedFlows \ TopFlows :
            \A k \in 1..Len(Top) : FlowMax(flow) <= Top[k].DurationMs
        /\ all_results = WithGuids(ExampleInput, 0) =>
            [k \in 1..Len(Top) |-> Top[k].DurationMs] = <<900, 700, 500, 300, 200>>

\* the example has been ranked
C2_Witness ==
    /\ Ranked
    /\ all_results = WithGuids(ExampleInput, 0)
    /\ [k \in 1..Len(Top) |-> Top[k].IntegrationFlowName] = <<"F3", "F5", "F1", "F4", "F6">>

-----------------------------------------------------------------------------
(* C3 *)

\* the flow's longest parseable record is a RETRY
RetryIsLongest(flow) ==
    \E i \in Parsed :
        /\ FlowOf(i) = flow
        /\ duration_records[i].Status = "RETRY"
        /\ \A j \in Parsed : FlowOf(j) = flow => DurationOf(j) <= DurationOf(i)

\* C3: no RETRY record is listed; a flow whose longest record is a RETRY is listed
\* with its longest non-RETRY record (it is listed whenever at most five flows
\* have one), and a flow with RETRY records only is not listed.
C3_NoRetry ==
    Ranked =>
        /\ \A k \in 1..Len(Top) : Top[k].Status # "RETRY"
        /\ \A i \in 1..Len(all_results) :
            all_results[i].Status = "RETRY" =>
                \A k \in 1..Len(Top) : Top[k].MessageGuid # all_results[i].MessageGuid
        /\ \A flow \in {FlowOf(i) : i \in Parsed} :
            RetryIsLongest(flow) =>
                /\ EligibleOf(flow) = {} => flow \notin TopFlows
                /\ EligibleOf(flow) # {} /\ Cardinality(RankedFlows) <= 5 =>
                    \E k \in 1..Len(Top) :
                        /\ Top[k].IntegrationFlowName = flow
                        /\ Top[k].DurationMs = FlowMax(flow)

\* a RETRY is the longest record of a listed flow, and another flow has RETRY
\* records only
C3_Witness ==
    /\ Ranked
    /\ \E flow \in TopFlows :
        \E i \in Parsed :
            /\ FlowOf(i) = flow
            /\ duration_records[i].Status = "RETRY"
            /\ DurationOf(i) > FlowMax(flow)

\* a flow has RETRY records only and is left out
C3_WitnessAbsent ==
    /\ Ranked
    /\ \E i \in Parsed : duration_records[i].Status = "RETRY" /\ EligibleOf(FlowOf(i)) = {}
    /\ Top # <<>>

-----------------------------------------------------------------------------
(* C10 *)

\* C10: of several longest records of a flow the first fetched is listed; flows
\* with equal maxima are listed, and cut after the fifth, in the order of their
\* first eligible records.
C10_TiesByFetchOrder ==
    Ranked =>
        /\ \A k \in 1..Len(Top) :
            \E i \in Eligible :
                /\ IsRecord(k, i)
                /\ \A j \in EligibleOf(FlowOf(i)) :
                    DurationOf(j) = DurationOf(i) => i <= j
        /\ \A k, l \in 1..Len(Top) :
            k < l /\ Top[k].DurationMs = Top[l].DurationMs =>
                FirstOf(Top[k].IntegrationFlowName) < FirstOf(Top[l].IntegrationFlowName)
        /\ \A flow \in RankedFlows \ TopFlows :
            \A k \in 1..Len(Top) :
                Top[k].DurationMs = FlowMax(flow) =>
                    FirstOf(Top[k].IntegrationFlowName) < FirstOf(flow)

\* a listed flow has two longest records, and a flow with the same maximum as
\* the fifth entry is cut
C10_Witness ==
    /\ Ranked
    /\ Len(Top) = 5
    /\ \E k \in 1..5 : \E i, j \in EligibleOf(Top[k].IntegrationFlowName) :
        i < j /\ DurationOf(i) = DurationOf(j) /\ DurationOf(i) = Top[k].DurationMs
    /\ \E flow \in RankedFlows \ TopFlows : FlowMax(flow) = Top[5].DurationMs

-----------------------------------------------------------------------------
(* C4 *)

\* LogStart or LogEnd is a string the pattern does not match
Unparseable(entry) ==
    \/ entry.LogStart.t = "str" /\ parse_log_date(entry.LogStart) = None
    \/ entry.LogEnd.t = "str" /\ parse_log_date(entry.LogEnd) = None

\* both are strings the pattern matches
Parseable(entry) ==
    /\ parse_log_date(entry.LogStart).t = "int"
    /\ parse_log_date(entry.LogEnd).t = "int"

\* the number of records in the pages of the responses rs
RECURSIVE Fetched(_)
Fetched(rs) == IF rs = <<>> THEN 0 ELSE Len(Head(rs).results) + Fetched(Tail(rs))

Guids(records) == [i \in 1..Len(records) |-> records[i].MessageGuid]

C4_WitnessRetry ==
    /\ Ranked
    /\ Report.TotalMessagesProcessed = 1
    /\ all_results[1].Status = "RETRY"
    /\ Top = <<>>

-----------------------------------------------------------------------------
(* C5 *)

\* the results of the pages of the responses rs, in order
RECURSIVE Concat(_)
Concat(rs) == IF rs = <<>> THEN <<>> ELSE Head(rs).results \o Concat(Tail(rs))

\* the response asks for another page
HasNext(r) == r.status = 200 /\ r.next # None /\ r.next # PyStr(<<>>)

Fetching == pc \in {"fetch", "process"} \/ Ranked

\* C5: every response but the last is a 200 with a next link, the pagination goes
\* on after such a response and ends with the first response that is not one,
\* and the records counted and ranked are the pages of the 200 responses in order.
C5_Pagination ==
    /\ \A i \in 1..(Len(responses) - 1) : HasNext(responses[i])
    /\ Fetching => all_results = Concat(responses)
    /\ pc = "fetch" /\ responses # <<>> =>
        /\ HasNext(responses[Len(responses)])
        /\ next_url # None
    /\ pc = "process" \/ Ranked =>
        /\ responses # <<>>
        /\ ~HasNext(responses[Len(responses)])
    /\ Ranked =>
        /\ Report.TotalMessagesProcessed = Len(Concat(responses))
        /\ Guids(duration_records) = Guids(SelectSeq(Concat(responses), Parseable))
    /\ \A i \in 1..Len(responses) : responses[i].status # 200 => responses[i].results = <<>>

\* two pages with records were fetched and ranked
C5_Witness ==
    /\ Ranked
    /\ Len(responses) = 2
    /\ responses[1].results # <<>>
    /\ responses[2].results # <<>>
    /\ Len(duration_records) = 2

\* a failure after the first page: the first page is used as it is
C5_WitnessFailure ==
    /\ Ranked
    /\ Len(responses) = 2
    /\ responses[2].status # 200
    /\ Report.TotalMessagesProcessed = 2

-----------------------------------------------------------------------------
(* C6 *)

\* one of the variables is absent or empty
MissingConfig == \E v \in OsVars : osenv[v] = None \/ osenv[v] = PyStr(<<>>)

\* C6: with one of the twelve variables absent or empty the process ends with an
\* error at the check, before any GET or POST.
C6_FailFast ==
    /\ Cardinality(OsVars) = 12
    /\ MissingConfig =>
        /\ nGet = 0
        /\ nPost = 0
        /\ pc \in {"validate", "aborted"}
        /\ pc = "aborted" => error = "RuntimeError"

\* the process has ended at the check for an empty PROD password
C6_Witness ==
    /\ pc = "aborted"
    /\ osenv[<<"PROD", "SAP_PASSWORD">>] = PyStr(<<>>)

-----------------------------------------------------------------------------
(* C7 *)

\* C7: the body of the POST has the keys DEV, UAT and PROD under environments and
\* nothing else, and its timestamp_range ends 24 hours after it starts.
C7_PostBody ==
    nPost > 0 =>
        LET envs == final_payload.environments
            range == final_payload.timestamp_range
        IN  /\ Len(envs) = 3
            /\ {envs[i].name : i \in 1..Len(envs)} = {"DEV", "UAT", "PROD"}
            /\ (range.end.date - range.start.date) * 24 * 3600
                + (range.end.H - range.start.H) * 3600
                + (range.end.M - range.start.M) * 60
                + (range.end.S - range.start.S) = 24 * 3600

\* the POST was sent after the fetch of UAT had failed, the clock not on a whole second
C7_Witness ==
    /\ pc = "done"
    /\ end_time.microseconds # 0
    /\ final_payload.environments[2].TotalMessagesProcessed = 0
    /\ final_payload.environments[3].TotalMessagesProcessed > 0

-----------------------------------------------------------------------------
(* C8 *)

\* C8: with a complete configuration no error ends the run.
C8_RunsToCompletion == AllRequired => pc # "crashed"

-----------------------------------------------------------------------------
(* C9 *)

\* whole seconds of a datetime
WholeSeconds(dt) == dt.days * SecondsPerDay + dt.seconds

\* the instant of ms epoch milliseconds is not after the datetime dt
MsBeforeOrAt(ms, dt) ==
    \/ ms \div 1000 < WholeSeconds(dt)
    \/ ms \div 1000 = WholeSeconds(dt) /\ (ms % 1000) * 1000 <= dt.microseconds

\* the instant of ms epoch milliseconds is not before the datetime dt
MsAfterOrAt(ms, dt) ==
    \/ ms \div 1000 > WholeSeconds(dt)
    \/ ms \div 1000 = WholeSeconds(dt) /\ (ms % 1000) * 1000 >= dt.microseconds

\* the interval of probe meets the window [now - 24h, now]
Overlaps == MsAfterOrAt(probe.LogEnd, start_time) /\ MsBeforeOrAt(probe.LogStart, end_time)

\* the interval of probe lies in the window, its ends cut to whole seconds
Contained ==
    /\ probe.LogStart >= WholeSeconds(start_time) * 1000
    /\ probe.LogEnd <= WholeSeconds(end_time) * 1000

\* C9 as stated: the filter selects the records whose interval overlaps the window.
C9_SelectsOverlapping == selected # "unknown" => (selected = "yes" <=> Overlaps)

\* C9 as amended: the filter selects the records whose interval lies within the
\* window, LogStart >= now - 24h and LogEnd <= now, both cut to whole seconds.
C9_SelectsContained == selected # "unknown" => (selected = "yes" <=> Contained)

\* a record that starts before the window and ends in it is not selected
C9_Witness ==
    /\ selected = "no"
    /\ Overlaps
    /\ probe.LogStart < WholeSeconds(start_time) * 1000
    /\ probe.LogEnd > WholeSeconds(start_time) * 1000
    /\ probe.LogEnd < WholeSeconds(end_time) * 1000

====
